---- MODULE Spec2Model ----
(***************************************************************************)
(* Model of the epoch loop of train_icvl.py: Trainer.train and             *)
(* Trainer.valid.  One action per block of straight-line code; the         *)
(* external collaborators (model, criterion, calc_psnr, Adam, MultiStepLR, *)
(* save_train) are modelled by the effect the loop observes.               *)
(*                                                                         *)
(* Python floats are modelled as exact rationals [num, den] in lowest      *)
(* terms, so that the divisions of lines 119, 120 and 152 are real         *)
(* divisions and the comparison of line 130 is a real order.               *)
(***************************************************************************)
EXTENDS Integers, Sequences, FiniteSets, TLC

\* ---------------------------------------------------------------- bounds
MaxEpochs == 3          \* largest args['epoch'] explored by Spec
MaxTrainBatches == 2    \* largest len(train_loader) explored
MaxValBatches == 1      \* largest len(val_loader) explored
LRExtraEpochs == 3      \* epochs explored past the last milestone by SpecLR

\* sample values of loss.item() and of calc_psnr for one batch (a PSNR is
\* negative when the mean squared error exceeds the squared peak)
LossValues == {1, 2}
PsnrValues == {-1, 1, 2}

\* ------------------------------------------------------ program constants
EpochCfg == 100                                   \* TRAIN_CFG[...]["epoch"]
LearningRate == [num |-> 1, den |-> 1000]         \* "learning_rate": 0.001
Milestones == {30, 100}                           \* milestones=[30, 100]
Gamma == [num |-> 1, den |-> 10]                  \* gamma=0.1
LastMilestone == 100

\* --------------------------------------------------------------- rationals
Abs(x) == IF x < 0 THEN -x ELSE x

RECURSIVE GCD(_, _)
GCD(a, b) == IF b = 0 THEN a ELSE GCD(b, a % b)

Normalize(r) ==
    LET g == GCD(Abs(r.num), r.den)
    IN  [num |-> r.num \div g, den |-> r.den \div g]

Rat(n) == [num |-> n, den |-> 1]
Zero == Rat(0)
\* value of a name that has not been bound yet
Unbound == [num |-> 0, den |-> 0]

RatAdd(a, b) == Normalize([num |-> a.num * b.den + b.num * a.den, den |-> a.den * b.den])
RatMul(a, b) == Normalize([num |-> a.num * b.num, den |-> a.den * b.den])
\* x / n for an int n > 0 (n = 0 raises ZeroDivisionError, see the Fail actions)
RatDiv(a, n) == Normalize([num |-> a.num, den |-> a.den * n])
RatLess(a, b) == a.num * b.den < b.num * a.den
RatLeq(a, b) == a.num * b.den <= b.num * a.den

VARIABLES
    args_epoch,   \* args['epoch']
    nTrain,       \* len(train_loader)
    nVal,         \* len(val_loader)
    lossRange,    \* values criterion(...).item() takes in this run
    psnrRange,    \* values calc_psnr(...) takes in this run
    pc,           \* position of the single thread of control
    error,        \* exception that aborted the run, "none" otherwise
    epoch,        \* loop variable of line 92
    i,            \* batches consumed by the loop of line 99
    vi,           \* batches consumed by the loop of line 140
    mode,         \* model.training: "train" or "eval"
    params,       \* version of the model parameters (one per optimizer.step)
    opt_steps,    \* optimizer internal state (Adam step count)
    lr,           \* optimizer.param_groups[0]['lr']
    last_epoch,   \* scheduler.last_epoch
    train_loss, train_psnr,   \* accumulators of Trainer.train
    v_loss, v_psnr,           \* accumulators local to Trainer.valid
    val_loss, val_psnr,       \* values returned by self.valid (line 121)
    best_psnr,
    logger,       \* lines printed to logger.txt
    writer,       \* (tag, step) pairs given to writer.add_scalar
    saved,        \* save_train calls: what was passed
    \* history variables: what the run has done so far
    val_hist,     \* val_psnr returned by each completed validation pass
    compared,     \* operands of each evaluation of line 130
    epoch_losses, \* loss.item() of each training batch of the current epoch
    val_on,       \* parameter versions the current validation pass evaluated
    n_val_batches \* validation batches evaluated in the whole run

vars == << args_epoch, nTrain, nVal, lossRange, psnrRange, pc, error, epoch, i, vi,
           mode, params, opt_steps, lr, last_epoch, train_loss, train_psnr,
           v_loss, v_psnr, val_loss, val_psnr, best_psnr, logger, writer, saved,
           val_hist, compared, epoch_losses, val_on, n_val_batches >>

inputs == << args_epoch, nTrain, nVal, lossRange, psnrRange >>
hist == << val_hist, compared, epoch_losses, val_on, n_val_batches >>

LogLine(kind, e) == [kind |-> kind, epoch |-> e]

\* State on entry to the loop of line 92 (lines 76-91 executed).
TrainSetup ==
    /\ pc = "epoch_start"
    /\ error = "none"
    /\ epoch = 0
    /\ i = 0
    /\ vi = 0
    /\ mode = "train"
    /\ params = 0
    /\ opt_steps = 0
    /\ lr = LearningRate
    /\ last_epoch = 0
    /\ train_loss = Unbound
    /\ train_psnr = Unbound
    /\ v_loss = Unbound
    /\ v_psnr = Unbound
    /\ val_loss = Unbound
    /\ val_psnr = Unbound
    /\ best_psnr = Zero
    /\ logger = << LogLine("start", -1) >>
    /\ writer = {}
    /\ saved = << >>
    /\ val_hist = << >>
    /\ compared = << >>
    /\ epoch_losses = << >>
    /\ val_on = {}
    /\ n_val_batches = 0

Init ==
    /\ args_epoch \in 1..MaxEpochs
    /\ nTrain \in 0..MaxTrainBatches
    /\ nVal \in 0..MaxValBatches
    /\ lossRange = LossValues
    /\ psnrRange = PsnrValues
    /\ TrainSetup

\* The configured run length and a few epochs past the last milestone, on a
\* data set whose batches all give the same loss and PSNR.
InitLR ==
    /\ args_epoch \in {EpochCfg, LastMilestone + LRExtraEpochs}
    /\ nTrain \in 0..1
    /\ nVal \in 0..1
    /\ lossRange = {1}
    /\ psnrRange = {1}
    /\ TrainSetup

\* ------------------------------------------------------------ Trainer.train

\* variant: model.train() is not called again after a validation pass
EpochStart_NoTrainMode ==
    /\ pc = "epoch_start"
    /\ epoch < args_epoch
    /\ logger' = Append(logger, LogLine("epoch", epoch))
    /\ train_loss' = Zero
    /\ train_psnr' = Zero
    /\ i' = 0
    /\ epoch_losses' = << >>
    /\ pc' = "train_batch"
    /\ UNCHANGED << inputs, error, epoch, vi, mode, params, opt_steps, lr, last_epoch,
                    v_loss, v_psnr, val_loss, val_psnr, best_psnr, writer, saved,
                    val_hist, compared, val_on, n_val_batches >>

\* lines 92-98: next value of range(args['epoch']), header line, model.train(),
\* accumulators reset
EpochStart ==
    /\ pc = "epoch_start"
    /\ epoch < args_epoch
    /\ logger' = Append(logger, LogLine("epoch", epoch))
    /\ mode' = "train"
    /\ train_loss' = Zero
    /\ train_psnr' = Zero
    /\ i' = 0
    /\ epoch_losses' = << >>
    /\ pc' = "train_batch"
    /\ UNCHANGED << inputs, error, epoch, vi, params, opt_steps, lr, last_epoch,
                    v_loss, v_psnr, val_loss, val_psnr, best_psnr, writer, saved,
                    val_hist, compared, val_on, n_val_batches >>

\* line 92: range exhausted, train returns
LoopExit ==
    /\ pc = "epoch_start"
    /\ epoch >= args_epoch
    /\ pc' = "done"
    /\ UNCHANGED << inputs, error, epoch, i, vi, mode, params, opt_steps, lr,
                    last_epoch, train_loss, train_psnr, v_loss, v_psnr, val_loss,
                    val_psnr, best_psnr, logger, writer, saved, hist >>

\* lines 99-115: one training batch
TrainBatch ==
    /\ pc = "train_batch"
    /\ i < nTrain
    /\ \E loss \in lossRange, psnr \in psnrRange :
          /\ train_loss' = RatAdd(train_loss, Rat(loss))
          /\ train_psnr' = RatAdd(train_psnr, Rat(psnr))
          /\ epoch_losses' = Append(epoch_losses, loss)
    /\ params' = params + 1
    /\ opt_steps' = opt_steps + 1
    /\ i' = i + 1
    /\ UNCHANGED << inputs, pc, error, epoch, vi, mode, lr, last_epoch, v_loss,
                    v_psnr, val_loss, val_psnr, best_psnr, logger, writer, saved,
                    val_hist, compared, val_on, n_val_batches >>

\* variant: the decay is applied one step after the milestone
get_lr_Late(last, cur) == IF (last - 1) \notin Milestones THEN cur ELSE RatMul(cur, Gamma)

\* MultiStepLR.get_lr: the rate after the counter reached `last`
get_lr(last, cur) == IF last \notin Milestones THEN cur ELSE RatMul(cur, Gamma)

\* lines 116-117: training sequence exhausted, scheduler.step()
SchedulerStep ==
    /\ pc = "train_batch"
    /\ i >= nTrain
    /\ last_epoch' = last_epoch + 1
    /\ lr' = get_lr(last_epoch + 1, lr)
    /\ pc' = "train_avg"
    /\ UNCHANGED << inputs, error, epoch, i, vi, mode, params, opt_steps,
                    train_loss, train_psnr, v_loss, v_psnr, val_loss, val_psnr,
                    best_psnr, logger, writer, saved, hist >>

\* lines 119-120
TrainAvg ==
    /\ pc = "train_avg"
    /\ nTrain # 0
    /\ train_psnr' = RatDiv(train_psnr, nTrain)
    /\ train_loss' = RatDiv(train_loss, nTrain)
    /\ pc' = "valid_start"
    /\ UNCHANGED << inputs, error, epoch, i, vi, mode, params, opt_steps, lr,
                    last_epoch, v_loss, v_psnr, val_loss, val_psnr, best_psnr,
                    logger, writer, saved, hist >>

\* line 119 with len(train_loader) = 0: float / 0 raises ZeroDivisionError
TrainAvgFail ==
    /\ pc = "train_avg"
    /\ nTrain = 0
    /\ error' = "ZeroDivisionError@119"
    /\ pc' = "aborted"
    /\ UNCHANGED << inputs, epoch, i, vi, mode, params, opt_steps, lr, last_epoch,
                    train_loss, train_psnr, v_loss, v_psnr, val_loss, val_psnr,
                    best_psnr, logger, writer, saved, hist >>

\* ------------------------------------------------------------ Trainer.valid

\* lines 121, 135-138
ValidStart ==
    /\ pc = "valid_start"
    /\ mode' = "eval"
    /\ v_loss' = Zero
    /\ v_psnr' = Zero
    /\ vi' = 0
    /\ val_on' = {}
    /\ pc' = "valid_batch"
    /\ UNCHANGED << inputs, error, epoch, i, params, opt_steps, lr, last_epoch,
                    train_loss, train_psnr, val_loss, val_psnr, best_psnr, logger,
                    writer, saved, val_hist, compared, epoch_losses, n_val_batches >>

\* lines 140-150: one validation batch under torch.no_grad()
ValidBatch ==
    /\ pc = "valid_batch"
    /\ vi < nVal
    /\ \E loss \in lossRange, psnr \in psnrRange :
          /\ v_loss' = RatAdd(v_loss, Rat(loss))
          /\ v_psnr' = RatAdd(v_psnr, Rat(psnr))
    /\ vi' = vi + 1
    /\ val_on' = val_on \cup {params}
    /\ n_val_batches' = n_val_batches + 1
    /\ UNCHANGED << inputs, pc, error, epoch, i, mode, params, opt_steps, lr,
                    last_epoch, train_loss, train_psnr, val_loss, val_psnr,
                    best_psnr, logger, writer, saved, val_hist, compared,
                    epoch_losses >>

\* lines 151-152 and the assignment of line 121
ValidReturn ==
    /\ pc = "valid_batch"
    /\ vi >= nVal
    /\ nVal # 0
    /\ val_loss' = RatDiv(v_loss, nVal)
    /\ val_psnr' = RatDiv(v_psnr, nVal)
    /\ val_hist' = Append(val_hist, RatDiv(v_psnr, nVal))
    /\ pc' = "log"
    /\ UNCHANGED << inputs, error, epoch, i, vi, mode, params, opt_steps, lr,
                    last_epoch, train_loss, train_psnr, v_loss, v_psnr, best_psnr,
                    logger, writer, saved, compared, epoch_losses, val_on,
                    n_val_batches >>

\* line 152 with len(data_loader) = 0: 0.0 / 0 raises ZeroDivisionError
ValidReturnFail ==
    /\ pc = "valid_batch"
    /\ vi >= nVal
    /\ nVal = 0
    /\ error' = "ZeroDivisionError@152"
    /\ pc' = "aborted"
    /\ UNCHANGED << inputs, epoch, i, vi, mode, params, opt_steps, lr, last_epoch,
                    train_loss, train_psnr, v_loss, v_psnr, val_loss, val_psnr,
                    best_psnr, logger, writer, saved, hist >>

\* ------------------------------------------------- Trainer.train, continued

\* variant: the summary line is printed twice
LogEpoch_Twice ==
    /\ pc = "log"
    /\ logger' = logger \o << LogLine("summary", epoch), LogLine("summary", epoch) >>
    /\ writer' = writer \cup { << tag, epoch >> :
                      tag \in {"Loss/train", "Loss/val", "PSNR/train", "PSNR/val"} }
    /\ pc' = "compare"
    /\ UNCHANGED << inputs, error, epoch, i, vi, mode, params, opt_steps, lr,
                    last_epoch, train_loss, train_psnr, v_loss, v_psnr, val_loss,
                    val_psnr, best_psnr, saved, hist >>

\* lines 122-128: summary line and the four scalars (values not kept)
LogEpoch ==
    /\ pc = "log"
    /\ logger' = Append(logger, LogLine("summary", epoch))
    /\ writer' = writer \cup { << tag, epoch >> :
                      tag \in {"Loss/train", "Loss/val", "PSNR/train", "PSNR/val"} }
    /\ pc' = "compare"
    /\ UNCHANGED << inputs, error, epoch, i, vi, mode, params, opt_steps, lr,
                    last_epoch, train_loss, train_psnr, v_loss, v_psnr, val_loss,
                    val_psnr, best_psnr, saved, hist >>

\* variant: a tie counts as a new best
IsBetter_Tie(best, val) == RatLeq(best, val)

\* variant: the operands are swapped
IsBetter_Swapped(best, val) == RatLess(val, best)

\* the condition of line 130
IsBetter(best, val) == RatLess(best, val)

\* variant: the training PSNR is compared instead of the validation PSNR
Compare_TrainPsnr ==
    /\ pc = "compare"
    /\ compared' = Append(compared, [epoch |-> epoch, best |-> best_psnr, val |-> train_psnr])
    /\ IF IsBetter(best_psnr, train_psnr)
          THEN /\ pc' = "save"
               /\ epoch' = epoch
          ELSE /\ pc' = "epoch_start"
               /\ epoch' = epoch + 1
    /\ UNCHANGED << inputs, error, i, vi, mode, params, opt_steps, lr, last_epoch,
                    train_loss, train_psnr, v_loss, v_psnr, val_loss, val_psnr,
                    best_psnr, logger, writer, saved, val_hist, epoch_losses,
                    val_on, n_val_batches >>

\* variant: the loop stops at the first epoch that brings no new best
Compare_EarlyStop ==
    /\ pc = "compare"
    /\ compared' = Append(compared, [epoch |-> epoch, best |-> best_psnr, val |-> val_psnr])
    /\ IF IsBetter(best_psnr, val_psnr)
          THEN /\ pc' = "save"
               /\ epoch' = epoch
          ELSE /\ pc' = "done"
               /\ epoch' = epoch + 1
    /\ UNCHANGED << inputs, error, i, vi, mode, params, opt_steps, lr, last_epoch,
                    train_loss, train_psnr, v_loss, v_psnr, val_loss, val_psnr,
                    best_psnr, logger, writer, saved, val_hist, epoch_losses,
                    val_on, n_val_batches >>

\* line 130: the comparison; no new best ends the loop body
Compare ==
    /\ pc = "compare"
    /\ compared' = Append(compared, [epoch |-> epoch, best |-> best_psnr, val |-> val_psnr])
    /\ IF IsBetter(best_psnr, val_psnr)
          THEN /\ pc' = "save"
               /\ epoch' = epoch
          ELSE /\ pc' = "epoch_start"
               /\ epoch' = epoch + 1
    /\ UNCHANGED << inputs, error, i, vi, mode, params, opt_steps, lr, last_epoch,
                    train_loss, train_psnr, v_loss, v_psnr, val_loss, val_psnr,
                    best_psnr, logger, writer, saved, val_hist, epoch_losses,
                    val_on, n_val_batches >>

\* variant: the checkpoint is labelled with the next epoch
Save_NextEpoch ==
    /\ pc = "save"
    /\ best_psnr' = val_psnr
    /\ saved' = Append(saved, [model |-> params, optimizer |-> opt_steps, epoch |-> epoch + 1])
    /\ epoch' = epoch + 1
    /\ pc' = "epoch_start"
    /\ UNCHANGED << inputs, error, i, vi, mode, params, opt_steps, lr, last_epoch,
                    train_loss, train_psnr, v_loss, v_psnr, val_loss, val_psnr,
                    logger, writer, hist >>

\* lines 131-132: new best, save_train(model_save_dir, model, optimizer, epoch)
Save ==
    /\ pc = "save"
    /\ best_psnr' = val_psnr
    /\ saved' = Append(saved, [model |-> params, optimizer |-> opt_steps, epoch |-> epoch])
    /\ epoch' = epoch + 1
    /\ pc' = "epoch_start"
    /\ UNCHANGED << inputs, error, i, vi, mode, params, opt_steps, lr, last_epoch,
                    train_loss, train_psnr, v_loss, v_psnr, val_loss, val_psnr,
                    logger, writer, hist >>

Next ==
    \/ EpochStart
    \/ LoopExit
    \/ TrainBatch
    \/ SchedulerStep
    \/ TrainAvg
    \/ TrainAvgFail
    \/ ValidStart
    \/ ValidBatch
    \/ ValidReturn
    \/ ValidReturnFail
    \/ LogEpoch
    \/ Compare
    \/ Save

Spec == Init /\ [][Next]_vars

\* the schedule over the configured run length
SpecLR == InitLR /\ [][Next]_vars

\* Runs for the progress of the loop: every PSNR value, one loss value (the
\* loss is accumulated and logged, lines 111 and 122-126, and read by no
\* condition).
InitFair ==
    /\ args_epoch \in 1..MaxEpochs
    /\ nTrain \in 0..MaxTrainBatches
    /\ nVal \in 0..MaxValBatches
    /\ lossRange = {1}
    /\ psnrRange = PsnrValues
    /\ TrainSetup

\* the interpreter runs the single thread until it returns or raises
SpecFair == InitFair /\ [][Next]_vars /\ WF_vars(Next)

\* ------------------------------------------------------------- properties

SavedEpochs == { saved[k].epoch : k \in DOMAIN saved }

\* the greatest of 0 and the first k validation PSNRs
RECURSIVE BestOf(_)
BestOf(k) ==
    IF k = 0 THEN Zero
    ELSE LET b == BestOf(k - 1)
         IN  IF RatLess(b, val_hist[k]) THEN val_hist[k] ELSE b

SumSeq(s) == LET RECURSIVE Sum(_)
                 Sum(k) == IF k = 0 THEN 0 ELSE s[k] + Sum(k - 1)
             IN  Sum(Len(s))

NumLines(kind) == Cardinality({ k \in DOMAIN logger : logger[k].kind = kind })

C2_BestPsnrMonotoneUpperBound ==
    /\ [](Len(saved) = 0 => best_psnr = Zero)
    /\ [][RatLeq(best_psnr, best_psnr')]_vars
    /\ [](\A k \in 1..Len(val_hist) : (k <= epoch) => RatLeq(val_hist[k], best_psnr))

\* a finished run whose best was raised twice and whose last epoch was worse
C2_Witness ==
    /\ pc = "done"
    /\ Len(saved) = 2
    /\ Len(val_hist) = 3
    /\ RatLess(val_hist[3], best_psnr)

\* C3: the rate in effect for the training batches of epoch e is 0.001 for
\* e in 0..29, 0.0001 for e in 30..99 and 0.00001 for e >= 100.
C3_LearningRateSchedule ==
    (pc = "train_batch" /\ i < nTrain) =>
        lr = IF epoch < 30 THEN [num |-> 1, den |-> 1000]
             ELSE IF epoch < 100 THEN [num |-> 1, den |-> 10000]
             ELSE [num |-> 1, den |-> 100000]

\* a training batch of an epoch past the second milestone
C3_Witness ==
    /\ pc = "train_batch"
    /\ i < nTrain
    /\ epoch > 100
    /\ lr = [num |-> 1, den |-> 100000]

\* C4: with zero validation batches the epoch does not fail, its validation
\* loss and PSNR are zero, and no checkpoint is written and best_psnr stays.
C4_EmptyValidationGuarded ==
    (nVal = 0) =>
        /\ error # "ZeroDivisionError@152"
        /\ (pc \in {"log", "compare", "save"} => val_loss = Zero /\ val_psnr = Zero)
        /\ saved = << >>
        /\ best_psnr = Zero

\* C5: once the training pass of an epoch is over, the training loss of the
\* epoch is the sum of that epoch's batch losses divided by their number B,
\* and is 0 (not a failure) when B = 0.
C5_TrainLossIsEpochMean ==
    (pc \in {"valid_start", "valid_batch", "log", "compare", "save", "aborted"}) =>
        /\ error # "ZeroDivisionError@119"
        /\ train_loss = IF nTrain = 0 THEN Zero
                        ELSE RatDiv(Rat(SumSeq(epoch_losses)), nTrain)
        /\ Len(epoch_losses) = nTrain

\* C6: a step of the validation pass changes none of the parameters, the
\* optimizer state, the learning rate, best_psnr, the training accumulators,
\* the log or the checkpoints; a validation batch runs in eval mode and a
\* training batch, also after a validation pass, runs in train mode.
C6_ValidationFrame ==
    [][ /\ (pc \in {"valid_start", "valid_batch"}) =>
              UNCHANGED << params, opt_steps, lr, last_epoch, best_psnr,
                           train_loss, train_psnr, epoch, i, logger, writer, saved >>
        /\ (pc = "valid_batch" /\ vi' # vi) => mode = "eval"
        /\ (pc = "train_batch" /\ i' # i) => mode = "train" ]_vars

\* a training batch of a later epoch, after a validation pass has run
C6_Witness ==
    /\ pc = "train_batch"
    /\ epoch >= 1
    /\ i >= 1
    /\ Len(val_hist) >= 1
    /\ n_val_batches >= 1
    /\ mode = "train"

\* C7: line 130 is evaluated once per epoch, in epoch order, after the
\* epoch's training batches, scheduler step and validation pass, and its
\* right operand is the validation PSNR that pass returned.
C7_CompareOncePerEpochOnFreshValPsnr ==
    /\ Len(compared) = epoch + (IF pc = "save" THEN 1 ELSE 0)
    /\ Len(compared) <= Len(val_hist)
    /\ \A k \in 1..Len(compared) :
          /\ compared[k].epoch = k - 1
          /\ compared[k].val = val_hist[k]
    /\ (pc = "compare") =>
          /\ Len(val_hist) = epoch + 1
          /\ last_epoch = epoch + 1
          /\ i = nTrain
          /\ vi = nVal

\* two comparisons made, on different validation PSNRs that differ from the
\* training PSNR of the epoch
C7_Witness ==
    /\ Len(compared) = 2
    /\ compared[1].val # compared[2].val
    /\ compared[2].val = val_psnr
    /\ train_psnr # val_psnr
    /\ pc = "epoch_start"

\* C8 as stated: a finished run of N epochs has written exactly N lines to
\* the text log and made at most N comparisons.
C8_ExactlyNLogLines ==
    (pc = "done") => (Len(logger) = args_epoch /\ Len(compared) <= args_epoch)

\* C8 amended: the log holds the start line, one header line per epoch
\* started and one summary line per validated epoch, hence 2N+1 lines of
\* which N are summaries when the run finishes; comparisons never exceed N
\* and are N when the run finishes.
C8_LogLinesAndComparisons ==
    /\ Len(compared) <= args_epoch
    /\ NumLines("start") = 1
    /\ NumLines("epoch") = epoch + (IF pc \in {"epoch_start", "done"} THEN 0 ELSE 1)
    /\ NumLines("summary") = Len(val_hist) - (IF pc = "log" THEN 1 ELSE 0)
    /\ Len(logger) = NumLines("start") + NumLines("epoch") + NumLines("summary")
    /\ (pc = "done") =>
          /\ NumLines("summary") = args_epoch
          /\ Len(logger) = 2 * args_epoch + 1
          /\ Len(compared) = args_epoch

\* a finished run of three epochs
C8_Witness ==
    /\ pc = "done"
    /\ args_epoch = 3
    /\ NumLines("summary") = 3
    /\ Len(logger) = 7

\* C9: with non-empty training and validation sequences the run reaches its
\* end, having made args['epoch'] epochs of nTrain optimizer steps, one
\* scheduler step and nVal validation batches each, whatever the metrics.
C9_TerminatesAfterAllEpochs ==
    (nTrain > 0 /\ nVal > 0) ~>
        /\ pc = "done"
        /\ error = "none"
        /\ epoch = args_epoch
        /\ params = args_epoch * nTrain
        /\ opt_steps = args_epoch * nTrain
        /\ last_epoch = args_epoch
        /\ n_val_batches = args_epoch * nVal
        /\ Len(val_hist) = args_epoch

\* a finished run of three epochs of two training batches and one validation
\* batch in which some epoch brought no new best
C9_Witness ==
    /\ pc = "done"
    /\ args_epoch = 3
    /\ nTrain = 2
    /\ nVal = 1
    /\ params = 6
    /\ n_val_batches = 3
    /\ Len(saved) < 3

\* C10: a checkpoint holds the parameters and optimizer state on which the
\* epoch's validation PSNR, the new best_psnr, was measured (no optimizer
\* step in between) and the index of that epoch.
C10_CheckpointConsistent ==
    [][ (Len(saved') > Len(saved)) =>
           LET c == saved'[Len(saved')]
           IN  /\ val_on = {c.model}
               /\ c.model = params
               /\ c.optimizer = opt_steps
               /\ c.epoch = epoch
               /\ c.epoch = Len(val_hist) - 1
               /\ best_psnr' = val_hist[Len(val_hist)]
               /\ params' = params ]_vars

\* two checkpoints of different epochs and parameters
C10_Witness ==
    /\ Len(saved) = 2
    /\ saved[1].epoch = 0
    /\ saved[2].epoch = 2
    /\ saved[1].model # saved[2].model

====
